---- MODULE Spec2Model ----
(***************************************************************************)
(* Model of coop_games.py: the CooperativeGame class.                      *)
(*                                                                         *)
(* A behaviour is one caller: it holds a player collection, a cost         *)
(* function dictionary and a minimize flag, calls CooperativeGame(...)     *)
(* once, and then calls Shapley(), Banzhaf(standardize),                   *)
(* normalize_solutions() and marginal_contribution(player, combination)    *)
(* in any order on the instance it got.                                    *)
(*                                                                         *)
(* Numbers.  The program computes with Python ints and floats.  The model  *)
(* computes with exact rationals <<numerator, denominator>> in lowest      *)
(* terms: float rounding is not modelled, a division by zero raises        *)
(* ZeroDivisionError as it does in Python.  None is <<0, 0>>.              *)
(*                                                                         *)
(* Dictionaries.  A dict is a function from its keys.  A key of the cost   *)
(* function is a tuple or a frozenset, as the class's docstring says; two  *)
(* tuples are the same key iff they are the same sequence, a tuple is      *)
(* never the same key as a frozenset.  Iteration is in insertion order     *)
(* (CPython 3.7+): the caller's insertion order is an input, so where the  *)
(* order decides a result the model takes every order.                     *)
(***************************************************************************)
EXTENDS Integers, Sequences, FiniteSets, TLC

\* ---------------------------------------------------------------- bounds

\* Largest value a caller puts in a cost function.
MaxValue == 2

\* normalize_solutions() divides again on every call: the number of calls
\* taken in one behaviour is capped.
MaxNormalize == 2

\* ------------------------------------------------------- rational numbers

Abs(x) == IF x < 0 THEN -x ELSE x

RECURSIVE Gcd(_, _)
Gcd(a, b) == IF b = 0 THEN a ELSE Gcd(b, a % b)

\* The number n/d (d # 0) in lowest terms with a positive denominator.
Rat(n, d) ==
    LET g == Gcd(Abs(n), Abs(d))
        s == IF d < 0 THEN -1 ELSE 1
    IN  <<(s * n) \div g, (s * d) \div g>>

FromInt(i) == <<i, 1>>

None == <<0, 0>>

IsZero(x) == x[1] = 0

RAdd(x, y) == Rat(x[1] * y[2] + y[1] * x[2], x[2] * y[2])

RMul(x, y) == Rat(x[1] * y[1], x[2] * y[2])

\* x / y for y # 0 (the callers raise ZeroDivisionError when y = 0).
RDiv(x, y) == Rat(x[1] * y[2], x[2] * y[1])

\* sum(...) of a dict's values (a function to rationals), from 0.
RECURSIVE RSum(_)
RSum(f) ==
    IF DOMAIN f = {} THEN FromInt(0)
    ELSE LET k == CHOOSE k \in DOMAIN f : TRUE
         IN  RAdd(f[k], RSum([j \in DOMAIN f \ {k} |-> f[j]]))

\* ------------------------------------------------------------------ keys

TupleKey(items) == [kind |-> "tuple", items |-> items, members |-> {}]

FrozensetKey(members) == [kind |-> "frozenset", items |-> <<>>, members |-> members]

\* The key () that _validate_cost_function tests for and inserts.
EmptyTuple == TupleKey(<<>>)

SeqToSet(s) == {s[i] : i \in DOMAIN s}

\* frozenset(coalition) of a cost function key.
frozenset(coalition) ==
    IF coalition.kind = "tuple" THEN SeqToSet(coalition.items) ELSE coalition.members

\* ---------------------------------------------------------------- inputs

Players == {1, 2, 3}

Values == 0 .. MaxValue

\* The player collections a caller passes: no player, one, two, the same
\* player twice, three.
PlayerInputs == {<<>>, <<1>>, <<1, 2>>, <<1, 1>>, <<1, 2, 3>>}

RECURSIVE SortedSeq(_)
SortedSeq(S) ==
    IF S = {} THEN <<>>
    ELSE LET m == CHOOSE m \in S : \A x \in S : m <= x
         IN  <<m>> \o SortedSeq(S \ {m})

\* The key of coalition S that a caller writes first: its sorted tuple.
TupleOf(S) == TupleKey(SortedSeq(S))

\* The complete tables of the games of at most two players, one tuple per
\* coalition, with and without the key (), every value.
CompleteTables ==
    UNION {[K -> Values] :
              K \in UNION {{{TupleOf(S) : S \in SUBSET P},
                            {TupleOf(S) : S \in SUBSET P} \ {EmptyTuple}} :
                          P \in {{}, {1}, {1, 2}}}}

\* Keys over two players: every coalition as a tuple, the pair in both
\* orders, and the empty coalition also as a frozenset.
SmallKeys ==
    {TupleKey(<<>>), TupleKey(<<1>>), TupleKey(<<2>>), TupleKey(<<1, 2>>),
     TupleKey(<<2, 1>>), FrozensetKey({})}

\* Every dict over those keys, each value the least or the greatest.
SmallTables == UNION {[K -> {0, MaxValue}] : K \in SUBSET SmallKeys}

\* The tables of the three-player game that leave the key () to the
\* constructor, each value the least or the greatest.
GrandTables == [{TupleOf(S) : S \in SUBSET Players} \ {EmptyTuple} -> {0, MaxValue}]

CostFunctionInputs == CompleteTables \cup SmallTables \cup GrandTables

\* ----------------------------------------------------------------- state

VARIABLES
    inputted_player_set,  \* the caller's player collection (a sequence)
    supplied,             \* the dict the caller built, as it was at the call
    caller_dict,          \* the same dict object, which the constructor may change
    minimize,             \* the minimize argument, then self.minimize
    pc,                   \* "new", "constructed", or "AssertionError"
    player_set,           \* self.player_set
    n_players,            \* self.n_players
    cost_function,        \* self.cost_function
    solutions,            \* self.solutions
    n_normalize,          \* calls of normalize_solutions() so far
    last_call             \* the last call made, its arguments and its outcome

vars ==
    <<inputted_player_set, supplied, caller_dict, minimize, pc, player_set,
      n_players, cost_function, solutions, n_normalize, last_call>>

inputs == <<inputted_player_set, supplied, minimize>>

engine == <<player_set, n_players, cost_function>>

SOLUTION_FUNCTIONS == {"Shapley", "Banzhaf"}

NoDict == [x \in {} |-> 0]

Call(op, standardize, player, combination, exc, marginal) ==
    [op |-> op, standardize |-> standardize, player |-> player,
     combination |-> combination, exc |-> exc, marginal |-> marginal]

Init ==
    /\ inputted_player_set \in PlayerInputs
    /\ supplied \in CostFunctionInputs
    /\ caller_dict = supplied
    /\ minimize \in BOOLEAN
    /\ pc = "new"
    /\ player_set = {}
    /\ n_players = 0
    /\ cost_function = NoDict
    /\ solutions = [sltns \in SOLUTION_FUNCTIONS |-> NoDict]
    /\ n_normalize = 0
    /\ last_call = Call("none", FALSE, 0, {}, "", 0)

\* ---------------------------------------------------------- construction

\* {frozenset(coalition): value for coalition, value in d.items()}: where
\* several keys give the same frozenset the last one iterated wins.  The keys
\* of `inserted` were inserted last, by the constructor; the others are in the
\* caller's order, which is any order.
RECURSIVE DictComprehension(_, _, _)
DictComprehension(d, coalitions, inserted) ==
    IF coalitions = {} THEN {NoDict}
    ELSE LET c == CHOOSE c \in coalitions : TRUE
             keys == {k \in DOMAIN d : frozenset(k) = c}
             last == IF keys \cap inserted # {} THEN keys \cap inserted ELSE keys
         IN  {(c :> d[k]) @@ f :
                 k \in last, f \in DictComprehension(d, coalitions \ {c}, inserted)}

Construct ==
    /\ pc = "new"
    /\ LET n == Len(inputted_player_set)
           expected_size == 2 ^ n
           size == Cardinality(DOMAIN caller_dict)
           accept(d, inserted) ==
               /\ pc' = "constructed"
               /\ caller_dict' = d
               /\ player_set' = SeqToSet(inputted_player_set)
               /\ n_players' = n
               /\ cost_function' \in
                      DictComprehension(d, {frozenset(k) : k \in DOMAIN d}, inserted)
               /\ solutions' =
                      [sltns \in SOLUTION_FUNCTIONS |->
                          [plyrs \in SeqToSet(inputted_player_set) |-> None]]
               /\ last_call' = Call("__init__", FALSE, 0, {}, "", 0)
           reject ==
               /\ pc' = "AssertionError"
               /\ last_call' = Call("__init__", FALSE, 0, {}, "AssertionError", 0)
               /\ UNCHANGED <<caller_dict, engine, solutions>>
       IN  IF size = expected_size - 1
           THEN IF EmptyTuple \in DOMAIN caller_dict
                THEN reject
                ELSE accept((EmptyTuple :> 0) @@ caller_dict, {EmptyTuple})
           ELSE IF size = expected_size
                THEN accept(caller_dict, {})
                ELSE reject
    /\ UNCHANGED <<inputs, n_normalize>>

\* ------------------------------------------------------- shared helpers

Result(table, exc) == [table |-> table, exc |-> exc]

Value(value, exc) == [value |-> value, exc |-> exc]

\* self.cost_function[coalition]
Lookup(coalition) ==
    IF coalition \in DOMAIN cost_function
    THEN Value(cost_function[coalition], "")
    ELSE Value(0, "KeyError")

get_grand_coalition_value == Lookup(player_set)

\* The orders in which a loop can iterate over the frozenset S.
Orders(S) ==
    {o \in [1 .. Cardinality(S) -> S] : \A i, j \in DOMAIN o : o[i] = o[j] => i = j}

\* itertools.combinations(S, r), as frozensets.
combinations(S, r) == {c \in SUBSET S : Cardinality(c) = r}

\* scipy.special.comb(n, k)
RECURSIVE comb(_, _)
comb(n, k) ==
    IF k < 0 \/ k > n THEN 0
    ELSE IF k = 0 \/ k = n THEN 1
    ELSE comb(n - 1, k - 1) + comb(n - 1, k)

\* ------------------------------------------------- marginal_contribution

\* marginal_contribution with the test of self.minimize left out.
marginal_contribution_unsigned(player, combination) ==
    IF player \in combination
    THEN LET sans_player == {x \in combination : x # player}
             with == Lookup(combination)
             sans == Lookup(sans_player)
         IN  IF with.exc # "" \/ sans.exc # ""
             THEN Value(0, "KeyError")
             ELSE Value(with.value - sans.value, "")
    ELSE Value(0, "")

marginal_contribution(player, combination) ==
    IF player \in combination
    THEN LET sans_player == {x \in combination : x # player}
             with == Lookup(combination)
             sans == Lookup(sans_player)
         IN  IF with.exc # "" \/ sans.exc # ""
             THEN Value(0, "KeyError")
             ELSE IF minimize
                  THEN Value(with.value - sans.value, "")
                  ELSE Value(sans.value - with.value, "")
    ELSE Value(0, "")

CallMarginal ==
    /\ pc = "constructed"
    /\ \E player \in player_set, combination \in SUBSET player_set :
          LET r == marginal_contribution(player, combination)
          IN  last_call' =
                  Call("marginal_contribution", FALSE, player, combination, r.exc, r.value)
    /\ UNCHANGED <<inputs, caller_dict, pc, engine, solutions, n_normalize>>

\* --------------------------------------------------------------- Shapley

\* [1/(comb(n,s)*s) for s in range(1,n+1)]; the list's index s-1 is s here.
shapley_coefficients ==
    [s \in 1 .. n_players |-> RDiv(FromInt(1), FromInt(comb(n_players, s) * s))]

\* Shapley's first loop, setting only the entries that are still None.
ShapleyInitOnce(table) ==
    [p0 \in player_set |-> IF table[p0] = None THEN FromInt(0) ELSE table[p0]]

\* for p0 in self.player_set: self.solutions['Shapley'][p0] = 0
ShapleyInit(table) == [p0 \in player_set |-> FromInt(0)]

\* The loop over `combo in set_i` for one player: temp_contribution, or the
\* KeyError of a lookup.
ShapleyTemp(p1, set_i) ==
    LET mine == {combo \in set_i : p1 \in combo}
        temp_marginal == [combo \in mine |-> marginal_contribution(p1, combo)]
        coefficients == shapley_coefficients
    IN  IF \E combo \in mine : temp_marginal[combo].exc # ""
        THEN Value(FromInt(0), "KeyError")
        ELSE Value(RSum([combo \in mine |->
                            RMul(coefficients[Cardinality(combo)],
                                 FromInt(temp_marginal[combo].value))]),
                   "")

\* The loops `for i in range(self.n_players)` and `for p1 in self.player_set`,
\* from their step j on: step j has i = j \div m and p1 = order[j % m + 1].
RECURSIVE ShapleyLoop(_, _, _)
ShapleyLoop(table, order, j) ==
    LET m == Len(order)
    IN  IF m = 0 \/ j >= n_players * m
        THEN Result(table, "")
        ELSE LET i == j \div m
                 p1 == order[(j % m) + 1]
                 temp == ShapleyTemp(p1, combinations(player_set, i + 1))
             IN  IF temp.exc # ""
                 THEN Result(table, temp.exc)
                 ELSE ShapleyLoop([table EXCEPT ![p1] = RAdd(@, temp.value)], order, j + 1)

\* Shapley() on an instance whose Shapley entries are `table`.
ShapleyRun(table, order) == ShapleyLoop(ShapleyInit(table), order, 0)

\* The outcomes of a call whose loops iterate over self.player_set: `sorted`
\* is its outcome when the set iterates in sorted order, `every` its outcomes
\* in all orders.  A lookup is missing in one order iff it is missing in every
\* order, and addition of rationals is commutative: a call that raises nothing
\* has one outcome.  A call that raises leaves what it had done, which depends
\* on the order: every order is taken.
Outcomes(sorted, every) == IF sorted.exc = "" THEN {sorted} ELSE every

Shapley ==
    /\ pc = "constructed"
    /\ LET run(order) == ShapleyRun(solutions["Shapley"], order)
       IN  \E r \in Outcomes(run(SortedSeq(player_set)),
                             {run(order) : order \in Orders(player_set)}) :
              /\ solutions' = [solutions EXCEPT !["Shapley"] = r.table]
              /\ last_call' = Call("Shapley", FALSE, 0, {}, r.exc, 0)
    /\ UNCHANGED <<inputs, caller_dict, pc, engine, n_normalize>>

\* --------------------------------------------------------------- Banzhaf

\* 1.0/(2**(n-1)); for n = 0 it is 1.0/0.5.
banzhaf_coefficient ==
    IF n_players = 0 THEN FromInt(2) ELSE RDiv(FromInt(1), FromInt(2 ^ (n_players - 1)))

\* for p0 in self.player_set: self.solutions['Banzhaf'][p0] = 0
BanzhafInit(table) == [p0 \in player_set |-> FromInt(0)]

\* The loop over `combo in set_i` for one player: temp_contribution, or the
\* KeyError of a lookup.
BanzhafTemp(p1, set_i) ==
    LET mine == {combo \in set_i : p1 \in combo}
        temp_marginal == [combo \in mine |-> marginal_contribution(p1, combo)]
    IN  IF \E combo \in mine : temp_marginal[combo].exc # ""
        THEN Value(FromInt(0), "KeyError")
        ELSE Value(RSum([combo \in mine |-> FromInt(temp_marginal[combo].value)]), "")

RECURSIVE BanzhafLoop(_, _, _)
BanzhafLoop(table, order, j) ==
    LET m == Len(order)
    IN  IF m = 0 \/ j >= n_players * m
        THEN Result(table, "")
        ELSE LET i == j \div m
                 p1 == order[(j % m) + 1]
                 temp == BanzhafTemp(p1, combinations(player_set, i + 1))
             IN  IF temp.exc # ""
                 THEN Result(table, temp.exc)
                 ELSE BanzhafLoop([table EXCEPT ![p1] = RAdd(@, temp.value)], order, j + 1)

\* for p2 in self.player_set: self.solutions['Banzhaf'][p2] *= banzhaf_coefficient
BanzhafScale(table) == [p2 \in DOMAIN table |-> RMul(table[p2], banzhaf_coefficient)]

\* The factor with the division by total_contribution left out.
standardization_factor_undivided(total_contribution) ==
    FromInt(get_grand_coalition_value.value)

\* standardization_factor = self.get_grand_coalition_value()/total_contribution
standardization_factor(total_contribution) ==
    RDiv(FromInt(get_grand_coalition_value.value), total_contribution)

\* The `if standardize:` block, on the scaled table.
Standardize(table) ==
    LET total_contribution == RSum(table)
    IN  IF get_grand_coalition_value.exc # ""
        THEN Result(table, "KeyError")
        ELSE IF IsZero(total_contribution)
        THEN Result(table, "ZeroDivisionError")
        ELSE Result([p3 \in DOMAIN table |->
                        RMul(table[p3], standardization_factor(total_contribution))],
                    "")

\* Banzhaf(standardize) on an instance whose Banzhaf entries are `table`.
BanzhafRun(table, order, standardize) ==
    LET looped == BanzhafLoop(BanzhafInit(table), order, 0)
    IN  IF looped.exc # ""
        THEN looped
        ELSE IF standardize
        THEN Standardize(BanzhafScale(looped.table))
        ELSE Result(BanzhafScale(looped.table), "")

Banzhaf ==
    /\ pc = "constructed"
    /\ \E standardize \in BOOLEAN :
          LET run(order) == BanzhafRun(solutions["Banzhaf"], order, standardize)
          IN  \E r \in Outcomes(run(SortedSeq(player_set)),
                                {run(order) : order \in Orders(player_set)}) :
                 /\ solutions' = [solutions EXCEPT !["Banzhaf"] = r.table]
                 /\ last_call' = Call("Banzhaf", standardize, 0, {}, r.exc, 0)
    /\ UNCHANGED <<inputs, caller_dict, pc, engine, n_normalize>>

\* --------------------------------------------------- normalize_solutions

\* sum(x for x in self.solutions['Banzhaf'].values() if x is not None)
banzhaf_total(sol) ==
    RSum([p \in {q \in DOMAIN sol["Banzhaf"] : sol["Banzhaf"][q] # None} |->
             sol["Banzhaf"][p]])

\* self.solutions['Banzhaf'][p1] /= banzhaf_total
NormalizeBanzhaf(sol, p1, total) ==
    IF sol["Banzhaf"][p1] = None
    THEN Result(sol, "")
    ELSE IF IsZero(total)
    THEN Result(sol, "ZeroDivisionError")
    ELSE Result([sol EXCEPT !["Banzhaf"][p1] = RDiv(@, total)], "")

\* The Shapley entry divided by the total of the Shapley entries, as the
\* Banzhaf entry is by banzhaf_total, instead of by the grand coalition value.
NormalizeShapleyByTotal(sol, p1) ==
    LET total == RSum([p \in {q \in DOMAIN sol["Shapley"] : sol["Shapley"][q] # None} |->
                          sol["Shapley"][p]])
    IN  IF sol["Shapley"][p1] = None
        THEN Result(sol, "")
        ELSE IF IsZero(total)
        THEN Result(sol, "ZeroDivisionError")
        ELSE Result([sol EXCEPT !["Shapley"][p1] = RDiv(@, total)], "")

\* self.solutions['Shapley'][p1] /= self.get_grand_coalition_value()
NormalizeShapley(sol, p1) ==
    IF sol["Shapley"][p1] = None
    THEN Result(sol, "")
    ELSE IF get_grand_coalition_value.exc # ""
    THEN Result(sol, "KeyError")
    ELSE IF get_grand_coalition_value.value = 0
    THEN Result(sol, "ZeroDivisionError")
    ELSE Result([sol EXCEPT !["Shapley"][p1] =
                    RDiv(@, FromInt(get_grand_coalition_value.value))], "")

\* The loop `for p1 in self.player_set`, from its k-th player on.
RECURSIVE NormalizeLoop(_, _, _, _)
NormalizeLoop(sol, order, k, total) ==
    IF k > Len(order)
    THEN Result(sol, "")
    ELSE LET b == NormalizeBanzhaf(sol, order[k], total)
         IN  IF b.exc # ""
             THEN b
             ELSE LET s == NormalizeShapley(b.table, order[k])
                  IN  IF s.exc # "" THEN s ELSE NormalizeLoop(s.table, order, k + 1, total)

NormalizeRun(sol, order) == NormalizeLoop(sol, order, 1, banzhaf_total(sol))

normalize_solutions ==
    /\ pc = "constructed"
    /\ n_normalize < MaxNormalize
    /\ n_normalize' = n_normalize + 1
    /\ LET run(order) == NormalizeRun(solutions, order)
       IN  \E r \in Outcomes(run(SortedSeq(player_set)),
                             {run(order) : order \in Orders(player_set)}) :
              /\ solutions' = r.table
              /\ last_call' = Call("normalize_solutions", FALSE, 0, {}, r.exc, 0)
    /\ UNCHANGED <<inputs, caller_dict, pc, engine>>

Next ==
    \/ Construct
    \/ Shapley
    \/ Banzhaf
    \/ normalize_solutions

Spec == Init /\ [][Next]_vars

\* The caller that constructs and then only asks for marginal contributions.
NextMarginal ==
    \/ Construct
    \/ CallMarginal

SpecMarginal == Init /\ [][NextMarginal]_vars
\* ------------------------------------------------------------------ claims

Constructed == pc = "constructed"

\* The number of distinct players in the supplied player collection.
DistinctPlayers == Cardinality(SeqToSet(inputted_player_set))

SuppliedSize == Cardinality(DOMAIN supplied)

\* The caller's table has an entry for the empty coalition, under either key.
SuppliesEmpty == \E k \in DOMAIN supplied : frozenset(k) = {}

\* The Solution Table of a freshly constructed engine.
Unset == [p \in player_set |-> None]

GrandValue == get_grand_coalition_value.value

Returned(op) == last_call.op = op /\ last_call.exc = ""

AllSet(concept) == \A p \in player_set : solutions[concept][p] # None

\* The sum of the marginal contributions of p over the coalitions of the
\* player set that contain p.
MarginalSum(p) ==
    RSum([C \in {D \in SUBSET player_set : p \in D} |->
             FromInt(marginal_contribution(p, C).value)])

\* What Banzhaf(standardize = False) leaves on a fresh engine.
RawBanzhaf == BanzhafRun(Unset, SortedSeq(player_set), FALSE)

\* What Shapley() leaves on a fresh engine.
FreshShapley == ShapleyRun(Unset, SortedSeq(player_set))

\* C1: after Shapley() has returned, the Shapley values of all players sum to
\* get_grand_coalition_value(), for every engine that construction accepted.
C1_ShapleyEfficiency ==
    Returned("Shapley") =>
        /\ get_grand_coalition_value.exc = ""
        /\ RSum(solutions["Shapley"]) = FromInt(GrandValue)

\* C2: construction succeeds only if the table has 2^n entries, or 2^n - 1
\* entries and none for the empty coalition, n the number of distinct players;
\* for every other table it fails.
C2_ConstructionValidation ==
    Constructed =>
        \/ SuppliedSize = 2 ^ DistinctPlayers
        \/ SuppliedSize = 2 ^ DistinctPlayers - 1 /\ ~SuppliesEmpty

\* C3: whenever construction succeeds, the keys of the stored characteristic
\* function are exactly the subsets of the player set.
C3_TableTotal ==
    Constructed => DOMAIN cost_function = SUBSET player_set

\* C4: a table of 2^n - 1 entries with none for the empty coalition is
\* accepted, and stored with the empty coalition at 0 and every other coalition
\* at the value the caller supplied for it.
C4_EmptyCoalitionDefault ==
    (pc # "new" /\ SuppliedSize = 2 ^ DistinctPlayers - 1 /\ ~SuppliesEmpty) =>
        /\ Constructed
        /\ {} \in DOMAIN cost_function /\ cost_function[{}] = 0
        /\ \A S \in (SUBSET player_set) \ {{}} : S \in DOMAIN cost_function
        /\ \A k \in DOMAIN supplied :
              /\ frozenset(k) \in DOMAIN cost_function
              /\ cost_function[frozenset(k)] = supplied[k]

\* C5: marginal_contribution(p, C) returns 0 when p is not in C; when p is in C
\* it returns v(C) - v(C without p) under minimization and v(C without p) - v(C)
\* under maximization, v the stored characteristic function.
C5_MarginalContribution ==
    last_call.op = "marginal_contribution" =>
        LET p == last_call.player
            C == last_call.combination
        IN  /\ p \notin C => last_call.exc = "" /\ last_call.marginal = 0
            /\ (p \in C /\ C \in DOMAIN cost_function /\ C \ {p} \in DOMAIN cost_function) =>
                  /\ last_call.exc = ""
                  /\ last_call.marginal =
                        IF minimize
                        THEN cost_function[C] - cost_function[C \ {p}]
                        ELSE cost_function[C \ {p}] - cost_function[C]

\* C5's case: the contribution to the one-player coalition, read against the
\* stored value of the empty coalition, under maximization.
C5_Witness ==
    /\ last_call.op = "marginal_contribution"
    /\ last_call.combination = {last_call.player}
    /\ ~minimize
    /\ last_call.exc = ""
    /\ cost_function[{}] # 0
    /\ last_call.marginal < 0

\* C6: Banzhaf(standardize = False) returns for every player p of an n-player
\* game 1/2^(n-1) times the sum of marginal_contribution(p, C) over the
\* 2^(n-1) coalitions C that contain p.
C6_RawBanzhaf ==
    (Returned("Banzhaf") /\ ~last_call.standardize) =>
        \A p \in player_set :
            solutions["Banzhaf"][p] =
                RDiv(MarginalSum(p), FromInt(2 ^ (Cardinality(player_set) - 1)))

\* C7: when the raw Banzhaf indices have a nonzero sum, Banzhaf(standardize =
\* True) returns values that sum to get_grand_coalition_value(), each the raw
\* index times the one factor grand coalition value / raw sum.
C7_StandardizedBanzhaf ==
    (last_call.op = "Banzhaf" /\ last_call.standardize) =>
        LET raw == RawBanzhaf
            raw_sum == RSum(raw.table)
        IN  (raw.exc = "" /\ ~IsZero(raw_sum)) =>
                /\ last_call.exc = ""
                /\ RSum(solutions["Banzhaf"]) = FromInt(GrandValue)
                /\ \A p \in player_set :
                      solutions["Banzhaf"][p] =
                          RMul(raw.table[p], RDiv(FromInt(GrandValue), raw_sum))

\* C7's case: three players, a raw sum that is not the grand coalition value,
\* and two players with different standardized values.
C7_Witness ==
    /\ Returned("Banzhaf") /\ last_call.standardize
    /\ Cardinality(player_set) = 3
    /\ RSum(RawBanzhaf.table) # FromInt(GrandValue)
    /\ GrandValue # 0
    /\ \E p, q \in player_set : solutions["Banzhaf"][p] # solutions["Banzhaf"][q]

\* C8: after Shapley() and Banzhaf() have run on a game with nonzero grand
\* coalition value and nonzero raw Banzhaf sum, one normalize_solutions() leaves
\* the Shapley entries summing to 1 and the Banzhaf entries summing to 1.
C8_NormalizeToShares ==
    (Returned("normalize_solutions") /\ n_normalize = 1
        /\ AllSet("Shapley") /\ AllSet("Banzhaf")
        /\ FreshShapley.exc = "" /\ RawBanzhaf.exc = ""
        /\ get_grand_coalition_value.exc = "" /\ GrandValue # 0
        /\ ~IsZero(RSum(RawBanzhaf.table))) =>
        /\ RSum(solutions["Shapley"]) = FromInt(1)
        /\ RSum(solutions["Banzhaf"]) = FromInt(1)

\* A step that is a call of normalize_solutions(), taken in a state that a
\* call of normalize_solutions() left with the Shapley values summing to 1.
SecondNormalize ==
    /\ Returned("normalize_solutions")
    /\ AllSet("Shapley")
    /\ RSum(solutions["Shapley"]) = FromInt(1)
    /\ n_normalize' = n_normalize + 1

\* C9, as claimed: once one normalize_solutions() has made the Shapley values
\* sum to 1, a second normalize_solutions() leaves them not summing to 1.
C9_SecondNormalizeBreaksSum ==
    [][SecondNormalize => RSum(solutions'["Shapley"]) # FromInt(1)]_vars

\* C9, amended: once one normalize_solutions() has made the Shapley values sum
\* to 1, a second normalize_solutions() that returns leaves them summing to
\* 1 / grand coalition value: not to 1, unless the grand coalition value is 1.
C9_SecondNormalizeDividesAgain ==
    [][(SecondNormalize /\ last_call'.exc = "") =>
          /\ GrandValue # 0
          /\ RSum(solutions'["Shapley"]) = RDiv(FromInt(1), FromInt(GrandValue))
          /\ (RSum(solutions'["Shapley"]) = FromInt(1) <=> GrandValue = 1)]_vars

\* C9's case: two calls of normalize_solutions() have returned on a game whose
\* grand coalition value is 2, and the Shapley values sum to 1/2.
C9_Witness ==
    /\ Returned("normalize_solutions")
    /\ n_normalize = 2
    /\ AllSet("Shapley") /\ player_set # {}
    /\ get_grand_coalition_value.exc = "" /\ GrandValue = 2
    /\ RSum(solutions["Shapley"]) = <<1, 2>>

\* C10: every entry of both concepts is unset right after construction, and a
\* call of Shapley() or Banzhaf(s), whatever was called before it, ends as the
\* same call ends on a freshly constructed engine with the same inputs.
C10_SolversRecompute ==
    /\ (Constructed /\ last_call.op = "__init__") =>
          \A sltns \in SOLUTION_FUNCTIONS : solutions[sltns] = Unset
    /\ last_call.op = "Shapley" =>
          \E order \in Orders(player_set) :
              LET fresh == ShapleyRun(Unset, order)
              IN  fresh.exc = last_call.exc /\ fresh.table = solutions["Shapley"]
    /\ last_call.op = "Banzhaf" =>
          \E order \in Orders(player_set) :
              LET fresh == BanzhafRun(Unset, order, last_call.standardize)
              IN  fresh.exc = last_call.exc /\ fresh.table = solutions["Banzhaf"]

\* C10's case: Shapley() has returned on an engine of three players on which
\* normalize_solutions() was called before and whose Banzhaf entries are
\* normalized shares.
C10_Witness ==
    /\ Returned("Shapley")
    /\ Cardinality(player_set) = 3
    /\ n_normalize >= 1
    /\ AllSet("Banzhaf")
    /\ solutions["Banzhaf"] # RawBanzhaf.table
    /\ RSum(solutions["Banzhaf"]) = FromInt(1)
    /\ RSum(solutions["Shapley"]) # FromInt(0)

====
